---- MODULE Spec2Model ----
(***************************************************************************)
(* A model of the video converter bot: the per-user request limiter        *)
(* (utils/rate_limiter.py), the conversation handlers and their FSM        *)
(* storage (handlers/video_handlers.py, handlers/commands.py), the         *)
(* downloads (services/downloader.py) and the ffmpeg job executor          *)
(* (services/video_processor.py).                                          *)
(*                                                                         *)
(* Handlers are asyncio coroutines.  The dispatcher starts one task per    *)
(* update (start_polling's handle_as_tasks default), so handlers of one    *)
(* user interleave, but only at the awaits that really suspend: the calls  *)
(* to the chat transport and the Telegram download.  The FSM storage is    *)
(* the in-memory one, whose awaits never suspend.  One action below is     *)
(* therefore one handler segment, from a resumption to the next suspending *)
(* await.  The ffmpeg and yt-dlp calls are made without await: a handler   *)
(* inside one of them holds the event loop, and the call's return is a     *)
(* step of its own.                                                        *)
(***************************************************************************)
EXTENDS Integers, Sequences, FiniteSets, TLC

VARIABLES
    now,            \* time.time(), in seconds
    user_requests,  \* RateLimiter._user_requests
    admitted,       \* history: the timestamps of the admitted requests, per user
    adminCalls,     \* history: the number of calls made by admins
    lastCheck,      \* history: the last check_rate_limit call and what it returned
    fsm_state,      \* MemoryStorage: the FSM state of each user ("None" = no state)
    fsm_data,       \* MemoryStorage: the FSM data of each user
    disk,           \* the paths of the files that exist
    nextId,         \* the stock of fresh file names (uuid4 / os.urandom)
    tasks,          \* the handler tasks in progress
    jobLog,         \* history: the run of the processor in the step just taken
    ev,             \* history: what the step just taken completed
    updates,        \* history: the number of updates received
    failures,       \* history: the number of transport calls that failed
    cleanLog,       \* history: the last direct call of cleanup_temp_file
    fetchLog        \* history: the download_from_url call of the step just taken

quotaVars   == <<now, user_requests, admitted, adminCalls, lastCheck>>
sessionVars == <<fsm_state, fsm_data, disk, nextId, tasks, jobLog, ev,
                 updates, failures, cleanLog, fetchLog>>
vars        == <<now, user_requests, admitted, adminCalls, lastCheck,
                 fsm_state, fsm_data, disk, nextId, tasks, jobLog, ev,
                 updates, failures, cleanLog, fetchLog>>

----------------------------------------------------------------------------
(* Configuration and bounds *)

Users == {1, 2}

\* config.ADMIN_USER_IDS comes from the environment; the model has one admin.
ADMIN_USER_IDS == {2}

MAX_REQUESTS_PER_MINUTE == 5

\* config.MAX_FILE_SIZE_MB, the downloader's max_file_size_mb
MAX_FILE_SIZE_MB == 50

window_seconds == 60

\* The clock stops here.
MaxTime == 62

\* How far the clock moves in one Tick.
TickDeltas == {30, 60}

\* The calls of an admin that the history counts.
MaxAdminCalls == 6

\* The admitted requests of one user that the history holds.
MaxAdmits == 7

\* time.time() is read twice in check_rate_limit: the time between the reads.
Elapsed == {0, 1}

----------------------------------------------------------------------------
(* utils/rate_limiter.py *)

RECURSIVE SelectSeq2(_, _)
\* The list comprehension of _cleanup_old_requests: the timestamps of s
\* newer than window_start, in order.
SelectSeq2(s, window_start) ==
    IF s = <<>> THEN <<>>
    ELSE IF Head(s) > window_start
         THEN <<Head(s)>> \o SelectSeq2(Tail(s), window_start)
         ELSE SelectSeq2(Tail(s), window_start)

\* _cleanup_old_requests with >= for >: a timestamp exactly one window old
\* is kept.
cleanup_old_requests_inclusive(reqs, current_time) ==
    LET keep == {i \in 1..Len(reqs) : reqs[i] >= current_time - window_seconds}
        RECURSIVE Kept(_)
        Kept(i) == IF i > Len(reqs) THEN <<>>
                   ELSE IF i \in keep THEN <<reqs[i]>> \o Kept(i + 1)
                   ELSE Kept(i + 1)
    IN Kept(1)

\* _cleanup_old_requests that drops nothing.
cleanup_old_requests_keeps_all(reqs, current_time) == reqs

\* RateLimiter._cleanup_old_requests, on one user's list.
cleanup_old_requests(reqs, current_time) ==
    SelectSeq2(reqs, current_time - window_seconds)

Max0(x) == IF x > 0 THEN x ELSE 0

\* check_rate_limit that records the request whether or not it allows it.
check_rate_limit_records_denied(reqs, user_id, t1, t2) ==
    IF user_id \in ADMIN_USER_IDS
    THEN [allowed |-> TRUE, remaining |-> MAX_REQUESTS_PER_MINUTE, reqs |-> reqs]
    ELSE LET cleaned == cleanup_old_requests(reqs, t1)
             current_requests == Len(cleaned)
             is_allowed == current_requests < MAX_REQUESTS_PER_MINUTE
         IN [allowed   |-> is_allowed,
             remaining |-> Max0(MAX_REQUESTS_PER_MINUTE - current_requests),
             reqs      |-> Append(cleaned, t2)]

\* check_rate_limit with the comparison off by one (<= for <).
check_rate_limit_off_by_one(reqs, user_id, t1, t2) ==
    IF user_id \in ADMIN_USER_IDS
    THEN [allowed |-> TRUE, remaining |-> MAX_REQUESTS_PER_MINUTE, reqs |-> reqs]
    ELSE LET cleaned == cleanup_old_requests(reqs, t1)
             current_requests == Len(cleaned)
             is_allowed == current_requests <= MAX_REQUESTS_PER_MINUTE
         IN [allowed   |-> is_allowed,
             remaining |-> Max0(MAX_REQUESTS_PER_MINUTE - current_requests),
             reqs      |-> IF is_allowed THEN Append(cleaned, t2) ELSE cleaned]

\* RateLimiter.check_rate_limit for user_id, with the two clock readings t1
\* (in _cleanup_old_requests) and t2 (at the append).  The result and the
\* user's new list.
check_rate_limit(reqs, user_id, t1, t2) ==
    IF user_id \in ADMIN_USER_IDS
    THEN [allowed |-> TRUE, remaining |-> MAX_REQUESTS_PER_MINUTE, reqs |-> reqs]
    ELSE LET cleaned == cleanup_old_requests(reqs, t1)
             current_requests == Len(cleaned)
             is_allowed == current_requests < MAX_REQUESTS_PER_MINUTE
         IN [allowed   |-> is_allowed,
             remaining |-> Max0(MAX_REQUESTS_PER_MINUTE - current_requests),
             reqs      |-> IF is_allowed THEN Append(cleaned, t2) ELSE cleaned]

NoCheck == [user |-> 0, allowed |-> FALSE, remaining |-> 0]

\* The effect of one check_rate_limit call on the limiter and its history.
RateLimitCall(u, t2, r) ==
    /\ now' = IF r.allowed /\ u \notin ADMIN_USER_IDS THEN t2 ELSE now
    /\ user_requests' = [user_requests EXCEPT ![u] = r.reqs]
    /\ u \in ADMIN_USER_IDS => adminCalls < MaxAdminCalls
    /\ r.allowed /\ u \notin ADMIN_USER_IDS => Len(admitted[u]) < MaxAdmits
    /\ admitted' = IF r.allowed /\ u \notin ADMIN_USER_IDS
                   THEN [admitted EXCEPT ![u] = Append(@, t2)]
                   ELSE admitted
    /\ adminCalls' = IF u \in ADMIN_USER_IDS THEN adminCalls + 1 ELSE adminCalls
    /\ lastCheck' = [user |-> u, allowed |-> r.allowed,
                     remaining |-> r.remaining]

\* A direct call of the limiter (the contract admit(identity)).
Admit(u) ==
    \E e \in Elapsed :
        /\ now + e <= MaxTime
        /\ e > 0 => u \notin ADMIN_USER_IDS
                      /\ check_rate_limit(user_requests[u], u, now, now).allowed
        /\ RateLimitCall(u, now + e,
                         check_rate_limit(user_requests[u], u, now, now + e))
        /\ UNCHANGED sessionVars

Tick ==
    \E d \in TickDeltas :
        /\ now + d <= MaxTime
        /\ now' = now + d
        /\ UNCHANGED <<user_requests, admitted, adminCalls, lastCheck>>
        /\ UNCHANGED sessionVars

----------------------------------------------------------------------------
(* The FSM storage, the temp directory and the handler tasks *)

\* Handler tasks in progress at once.
MaxTasks == 2

\* The file names the temp directory hands out.
MaxFiles == 3

\* The updates of one run.  A run of four updates reaches every handler; the
\* limiter turns a user down at the sixth, which SpecQuota follows.
MaxUpdates == 4

\* The transport calls that fail in one run.
MaxFailures == 1

\* The users whose conversations the session specification follows.
SessionUsers == {1}

\* The callback data "operation:<x>" of the keyboards: the four operations of
\* show_operation_options and the Back button of the format and quality
\* keyboards (callback_data="operation:back").
Operations == {"convert", "compress", "extract_audio", "trim"}
OperationCallbacks == Operations \cup {"back"}

\* The values of the format, quality, audio format and bitrate keyboards
\* (a part of each: the handlers treat every value but "cancel" alike, and
\* the processor tells "gif" from the other formats; TierCallback has all
\* three qualities).
Formats == {"mp4", "gif"}
Qualities == {"medium", "high"}
AudioFormats == {"mp3"}
Bitrates == {"192k"}

\* How a call to the chat transport ends: it returns, it raises
\* TelegramBadRequest, or it raises another exception.
TransportOutcomes == {"ok", "bad_request", "error"}

\* How download_from_telegram / download_from_url end: a file, None, or None
\* with a partly written file left behind.
DownloadOutcomes == {"file", "none", "none_partial"}

\* How one run of the external tool ends.
ToolOutcomes == {"ok", "fail"}

NoTime == -1000

\* A path is the sequence of the characters of str(path); no path is None.
NoPath == <<>>

\* str(config.TEMP_DIR): Path("./temp") prints as "temp".
TEMP_DIR == <<"t", "e", "m", "p">>

\* _generate_temp_path, download_*: temp_dir / <fresh name>.
temp_file(n) == TEMP_DIR \o <<"/", ToString(n)>>

\* FSMContext data after state.clear(): every key absent.
EmptyData ==
    [original_message_id |-> FALSE, video_path |-> NoPath, operation |-> "none",
     target_format |-> "none", quality |-> "none", audio_format |-> "none",
     bitrate |-> "none", trim_start |-> NoTime, trim_end |-> NoTime]

\* A handler task: its user, handler (kind), callback value or text (arg),
\* the await it is suspended at (pc) and its locals: d is process_video's
\* `data`, src its video_path, out its result_file, emid its
\* edit_message_id.  History: st0
\* the FSM state when the update arrived, replies the failure messages sent,
\* res the error met, tok whether every transport call returned.
FreeTask ==
    [user |-> 0, kind |-> "free", arg |-> "none", pc |-> "free",
     st0 |-> "None", d |-> EmptyData, src |-> NoPath, out |-> NoPath, emid |-> FALSE,
     replies |-> 0, res |-> "none", tok |-> TRUE, size |-> 0]

NoEv == [pv |-> FALSE, done |-> FALSE, cancel |-> FALSE, t |-> FreeTask]

Slots == 1..MaxTasks

HasFree == \E s \in Slots : tasks[s].pc = "free"

FreeSlot == CHOOSE s \in Slots :
                /\ tasks[s].pc = "free"
                /\ \A r \in Slots : tasks[r].pc = "free" => s <= r

NewTask(u, kind, arg) ==
    [FreeTask EXCEPT !.user = u, !.kind = kind, !.arg = arg,
                     !.st0 = fsm_state[u]]

----------------------------------------------------------------------------
(* services/video_processor.py *)

stop_after_attempt == 3

\* The body of _run_ffmpeg_command on one run of the tool: both except
\* clauses return False, so the body never raises.
ffmpeg_body(o) == IF o = "ok" THEN "True" ELSE "False"

RECURSIVE Retrying(_, _)
\* tenacity's @retry(stop=stop_after_attempt(3), wait=wait_fixed(2)): the
\* default retry condition retries a call that raised, and only that.
Retrying(outs, attempt) ==
    LET r == ffmpeg_body(outs[attempt])
    IN IF r = "raise" /\ attempt < stop_after_attempt
       THEN Retrying(outs, attempt + 1)
       ELSE [result |-> r, calls |-> attempt]

\* VideoProcessor._run_ffmpeg_command with its decorator; outs are the
\* results the tool would give on its first, second and third run.
run_ffmpeg_command(outs) == Retrying(outs, 1)

\* VideoProcessor._convert_to_gif: two subprocess.run calls, the first one
\* writes the palette, and the palette is deleted only after the second one
\* succeeded.
convert_to_gif(outs) ==
    IF outs[1] # "ok"
    THEN [result |-> "None", calls |-> 1, palette |-> "none", retrying |-> FALSE]
    ELSE IF outs[2] # "ok"
    THEN [result |-> "None", calls |-> 2, palette |-> "left", retrying |-> FALSE]
    ELSE [result |-> "file", calls |-> 2, palette |-> "deleted", retrying |-> FALSE]

FromFfmpeg(r) ==
    [result |-> IF r.result = "True" THEN "file" ELSE "None",
     calls |-> r.calls, palette |-> "none", retrying |-> TRUE]

\* VideoProcessor.convert_format
convert_format(output_format, outs) ==
    IF output_format = "none"
    THEN [result |-> "raise", calls |-> 0, palette |-> "none", retrying |-> FALSE]
    ELSE IF output_format = "gif"
    THEN convert_to_gif(outs)
    ELSE FromFfmpeg(run_ffmpeg_command(outs))

\* VideoProcessor.compress_video, extract_audio and trim_video: one call of
\* _run_ffmpeg_command each.
compress_video(quality, outs) == FromFfmpeg(run_ffmpeg_command(outs))
extract_audio(audio_format, bitrate, outs) == FromFfmpeg(run_ffmpeg_command(outs))
trim_video(start_time, end_time, outs) == FromFfmpeg(run_ffmpeg_command(outs))

\* The options a job hands to _run_ffmpeg_command that the model follows:
\* 'codec:v', 'crf', 'preset' as the strings of the code, 'ss' and 'to' as
\* the numbers whose str() the code passes ("none" and NoTime: not set).
NoOptions ==
    [codec_v |-> "none", crf |-> "none", preset |-> "none",
     ss |-> NoTime, to |-> NoTime]

\* compress_video with the tiers read in another order: "low" gets the
\* options of "high".
compression_options_swapped(quality) ==
    CASE quality = "low" -> [crf |-> "20", preset |-> "medium"]
      [] quality = "high" -> [crf |-> "28", preset |-> "faster"]
      [] OTHER -> [crf |-> "23", preset |-> "medium"]

\* compress_video, lines 220-224 and 229:
\* compression_options.get(quality, compression_options['medium'])
compression_options(quality) ==
    CASE quality = "low" -> [crf |-> "28", preset |-> "faster"]
      [] quality = "medium" -> [crf |-> "23", preset |-> "medium"]
      [] quality = "high" -> [crf |-> "20", preset |-> "medium"]
      [] OTHER -> [crf |-> "23", preset |-> "medium"]

\* compress_video, lines 227-230.
compress_video_options(quality) ==
    [NoOptions EXCEPT !.codec_v = "libx264",
                      !.crf = compression_options(quality).crf,
                      !.preset = compression_options(quality).preset]

\* trim_video, lines 337-348.
trim_video_options(start_time, end_time) ==
    [NoOptions EXCEPT !.ss = start_time, !.to = end_time,
                      !.codec_v = "libx264", !.crf = "16", !.preset = "medium"]

\* str.startswith
startswith(str, prefix) ==
    Len(str) >= Len(prefix) /\ SubSeq(str, 1, Len(prefix)) = prefix

\* cleanup_temp_file without the exists() test, reporting success.
cleanup_temp_file_no_exists(files, file_path) ==
    IF startswith(file_path, TEMP_DIR)
    THEN [files |-> files \ {file_path}, deleted |-> TRUE]
    ELSE [files |-> files, deleted |-> FALSE]

\* VideoProcessor.cleanup_temp_file on the files that exist: the files left
\* and the value returned.
cleanup_temp_file(files, file_path) ==
    IF startswith(file_path, TEMP_DIR) /\ file_path \in files
    THEN [files |-> files \ {file_path}, deleted |-> TRUE]
    ELSE [files |-> files, deleted |-> FALSE]

\* The dispatch of process_video, lines 726-759, on its `data`.
ProcessorCall(data, outs) ==
    CASE data.operation = "convert" ->
            convert_format(data.target_format, outs)
      [] data.operation = "compress" ->
            compress_video(IF data.quality = "none" THEN "medium" ELSE data.quality,
                           outs)
      [] data.operation = "extract_audio" ->
            extract_audio(IF data.audio_format = "none" THEN "mp3"
                                                      ELSE data.audio_format,
                          IF data.bitrate = "none" THEN "192k" ELSE data.bitrate,
                          outs)
      [] data.operation = "trim" ->
            trim_video(IF data.trim_start = NoTime THEN 0 ELSE data.trim_start,
                       data.trim_end, outs)
      [] OTHER -> [result |-> "None", calls |-> 0, palette |-> "none",
                   retrying |-> FALSE]

\* The options of the call that ProcessorCall makes for compress and trim.
ProcessorOptions(data) ==
    CASE data.operation = "compress" ->
            compress_video_options(IF data.quality = "none" THEN "medium"
                                                            ELSE data.quality)
      [] data.operation = "trim" ->
            trim_video_options(IF data.trim_start = NoTime THEN 0
                                                           ELSE data.trim_start,
                               data.trim_end)
      [] OTHER -> NoOptions

\* The results the tool gives on its first, second and third run.
ToolRuns == [1..stop_after_attempt -> ToolOutcomes]

\* The tool fails on an input file that does not exist.
RunsOn(files, src, outs) ==
    IF src \in files THEN outs ELSE [i \in 1..stop_after_attempt |-> "fail"]

\* The user_id that download_from_url gets when the caller passes none
\* (the default, None).
NoUser == 0

\* No download_from_url call in the step.
NoFetch == [user |-> NoUser, size |-> 0, result |-> "none"]

\* History of a run of the processor: the runs of the tool, whether all of
\* them failed, whether they went through _run_ffmpeg_command, the result.
NoJob ==
    [calls |-> 0, all_failed |-> FALSE, retrying |-> FALSE, result |-> "none",
     gif |-> FALSE, any_failed |-> FALSE, palette |-> NoPath,
     options |-> NoOptions]
----------------------------------------------------------------------------
(* Texts: a message text is a sequence of characters.  A Cyrillic letter
   is written as one character named cyr_<latin letter>. *)

Digits == {"0", "1", "2", "3", "4", "5", "6", "7", "8", "9"}

DigitVal(c) ==
    CASE c = "0" -> 0 [] c = "1" -> 1 [] c = "2" -> 2 [] c = "3" -> 3
      [] c = "4" -> 4 [] c = "5" -> 5 [] c = "6" -> 6 [] c = "7" -> 7
      [] c = "8" -> 8 [] c = "9" -> 9

RECURSIVE DigitsValue(_, _)
DigitsValue(s, acc) ==
    IF s = <<>> THEN acc ELSE DigitsValue(Tail(s), 10 * acc + DigitVal(Head(s)))

RECURSIVE LStrip(_)
LStrip(s) == IF s # <<>> /\ Head(s) = " " THEN LStrip(Tail(s)) ELSE s

RECURSIVE RStrip(_)
RStrip(s) ==
    IF s # <<>> /\ s[Len(s)] = " " THEN RStrip(SubSeq(s, 1, Len(s) - 1)) ELSE s

\* str.strip()
Strip(s) == RStrip(LStrip(s))

\* str.lower(), on the letters the texts of the model are written with.
LowerChar(c) ==
    CASE c = "cyr_K" -> "cyr_k" [] c = "A" -> "a" [] c = "B" -> "b"
      [] OTHER -> c

Lower(s) == [i \in 1..Len(s) |-> LowerChar(s[i])]

\* The float that is not a number: every comparison with it is false.
NaN == -999

\* float(s) on a text of digits with an optional sign, and on "nan"; any
\* other text of the model (none holds '.', 'e', '_' or "inf") raises
\* ValueError.
float(s) ==
    LET t == Strip(s)
        signed == t # <<>> /\ t[1] \in {"+", "-"}
        body == IF signed THEN Tail(t) ELSE t
    IN IF body # <<>> /\ \A i \in 1..Len(body) : body[i] \in Digits
       THEN [ok |-> TRUE,
             val |-> IF signed /\ t[1] = "-" THEN 0 - DigitsValue(body, 0)
                                             ELSE DigitsValue(body, 0)]
       ELSE IF Lower(body) = <<"n", "a", "n">>
       THEN [ok |-> TRUE, val |-> NaN]
       ELSE [ok |-> FALSE, val |-> 0]

RECURSIVE Split(_, _)
\* s.split(":"), with cur the part being read.
Split(s, cur) ==
    IF s = <<>> THEN <<cur>>
    ELSE IF Head(s) = ":" THEN <<cur>> \o Split(Tail(s), <<>>)
    ELSE Split(Tail(s), Append(cur, Head(s)))

\* parse_time_format without the MM:SS and H:MM:SS forms.
parse_time_format_seconds_only(time_str) == float(Strip(time_str))

\* parse_time_format: ok is FALSE where the code raises ValueError.  A sum
\* with a part that is not a number is not a number.
parse_time_format(time_str) ==
    LET t == Strip(time_str)
        direct == float(t)
        parts == Split(t, <<>>)
        Bad == [ok |-> FALSE, val |-> 0]
        Sum(fs, v) == [ok |-> TRUE,
                       val |-> IF \E i \in 1..Len(fs) : fs[i].val = NaN
                               THEN NaN ELSE v]
    IN IF direct.ok THEN direct
       ELSE IF Len(parts) = 2
       THEN IF float(parts[1]).ok /\ float(parts[2]).ok
            THEN Sum(<<float(parts[1]), float(parts[2])>>,
                     float(parts[1]).val * 60 + float(parts[2]).val)
            ELSE Bad
       ELSE IF Len(parts) = 3
       THEN IF float(parts[1]).ok /\ float(parts[2]).ok /\ float(parts[3]).ok
            THEN Sum(<<float(parts[1]), float(parts[2]), float(parts[3])>>,
                     float(parts[1]).val * 3600 + float(parts[2]).val * 60
                       + float(parts[3]).val)
            ELSE Bad
       ELSE Bad

\* get_i18n_for_user reads USER_LANGUAGES, which nothing writes: every user
\* gets the "ru" table of TRANSLATIONS["trim_operation"].
end_of_video == <<"cyr_K", "cyr_o", "cyr_n", "cyr_e", "cyr_c", " ",
                  "cyr_v", "cyr_i", "cyr_d", "cyr_e", "cyr_o">>
Sek == <<" ", "cyr_s", "cyr_e", "cyr_k">>
Min == <<" ", "cyr_m", "cyr_i", "cyr_n">>
preset_10_sec == <<"+", "1", "0">> \o Sek
preset_30_sec == <<"+", "3", "0">> \o Sek
preset_1_min == <<"+", "1">> \o Min
preset_2_min == <<"+", "2">> \o Min
preset_5_min == <<"+", "5">> \o Min
preset_10_min == <<"+", "1", "0">> \o Min

\* The preset buttons by their keys in the "ru" table, the 30 seconds of the
\* "en" table ("+30 sec"), and a "+N" typed by hand.
PresetNames ==
    {"preset_10_sec", "preset_30_sec", "preset_1_min", "preset_2_min",
     "preset_5_min", "preset_10_min", "en_preset_30_sec", "+7"}

PresetText(name) ==
    CASE name = "preset_10_sec" -> preset_10_sec
      [] name = "preset_30_sec" -> preset_30_sec
      [] name = "preset_1_min" -> preset_1_min
      [] name = "preset_2_min" -> preset_2_min
      [] name = "preset_5_min" -> preset_5_min
      [] name = "preset_10_min" -> preset_10_min
      [] name = "en_preset_30_sec" -> <<"+", "3", "0", " ", "s", "e", "c">>
      [] name = "+7" -> <<"+", "7">>

\* Texts for the start of the cut in the forms parse_time_format knows, and
\* texts outside them, each with its characters.
TimeTexts ==
    ("90" :> <<"9", "0">>)
      @@ ("1:30" :> <<"1", ":", "3", "0">>)
      @@ ("0:01:30" :> <<"0", ":", "0", "1", ":", "3", "0">>)
      @@ ("abc" :> <<"a", "b", "c">>)
      @@ (":" :> <<":">>)
      @@ ("-5" :> <<"-", "5">>)
      @@ ("nan" :> <<"n", "a", "n">>)

\* The texts a user sends while the bot waits for the start of the cut ...
TrimStartTexts == { <<"1", "0">>, <<"a", "b", "c">>, <<"-", "5">> }

\* ... and for its end.
TrimEndTexts == { <<"4", "0">>, <<"5">>, <<"+", "x", "y", "z">>, <<"+", "0">>,
                  end_of_video, preset_30_sec }

\* Texts that begin with "+", are no preset, and whose rest float() does
\* not take.
PlusTexts ==
    ("+xyz" :> <<"+", "x", "y", "z">>)
      @@ ("+1:30" :> <<"+", "1", ":", "3", "0">>)
      @@ ("+" :> <<"+">>)

\* process_trim_end that hands the rest of an unmatched "+" text to
\* parse_time_format.
trim_end_of_generic_fallback(message_text, start_time) ==
    LET text == Lower(Strip(message_text))
        Stored(v) == [ok |-> TRUE, val |-> v]
        Refused == [ok |-> FALSE, val |-> NoTime]
    IN IF text = Lower(end_of_video) THEN Stored(NoTime)
       ELSE IF text # <<>> /\ text[1] = "+"
       THEN IF text = Lower(preset_10_sec) THEN Stored(start_time + 10)
            ELSE IF text = Lower(preset_30_sec) THEN Stored(start_time + 30)
            ELSE IF text = Lower(preset_1_min) THEN Stored(start_time + 60)
            ELSE IF text = Lower(preset_2_min) THEN Stored(start_time + 120)
            ELSE IF text = Lower(preset_5_min) THEN Stored(start_time + 300)
            ELSE IF text = Lower(preset_10_min) THEN Stored(start_time + 600)
            ELSE IF parse_time_format(Tail(text)).ok
                 THEN Stored(start_time + parse_time_format(Tail(text)).val)
                 ELSE Refused
       ELSE IF parse_time_format(text).ok /\ parse_time_format(text).val > start_time
            THEN Stored(parse_time_format(text).val)
            ELSE Refused

\* process_trim_end, lines 602-655: what the text stores as trim_end, or
\* that the text is turned down (a message is sent and the handler returns).
trim_end_of(message_text, start_time) ==
    LET text == Lower(Strip(message_text))
        Stored(v) == [ok |-> TRUE, val |-> v]
        Refused == [ok |-> FALSE, val |-> NoTime]
    IN IF text = Lower(end_of_video) THEN Stored(NoTime)
       ELSE IF text # <<>> /\ text[1] = "+"
       THEN IF text = Lower(preset_10_sec) THEN Stored(start_time + 10)
            ELSE IF text = Lower(preset_30_sec) THEN Stored(start_time + 30)
            ELSE IF text = Lower(preset_1_min) THEN Stored(start_time + 60)
            ELSE IF text = Lower(preset_2_min) THEN Stored(start_time + 120)
            ELSE IF text = Lower(preset_5_min) THEN Stored(start_time + 300)
            ELSE IF text = Lower(preset_10_min) THEN Stored(start_time + 600)
            ELSE IF float(Tail(text)).ok
                 THEN Stored(start_time + float(Tail(text)).val)
                 ELSE Refused
       ELSE IF parse_time_format(text).ok /\ parse_time_format(text).val > start_time
            THEN Stored(parse_time_format(text).val)
            ELSE Refused
----------------------------------------------------------------------------
(* A handler segment is a function on the part of the state it works on:
   the task, the user's FSM state and data, the temp directory, the job
   history, and the marks of what the segment completed. *)

Seg(u, rec) ==
    [rec |-> rec, st |-> fsm_state[u], data |-> fsm_data[u], disk |-> disk,
     nextId |-> nextId, job |-> NoJob, pv |-> FALSE, done |-> FALSE,
     cancel |-> FALSE, fetch |-> NoFetch]

At(L, pc) == [L EXCEPT !.rec.pc = pc]
Done(L) == [L EXCEPT !.done = TRUE]
Res(L, res) == [L EXCEPT !.rec.res = res]
Reply(L) == [L EXCEPT !.rec.replies = @ + 1]
Failed(L) == [L EXCEPT !.rec.tok = FALSE]
Abort(L) == Done([L EXCEPT !.rec.res = "aborted", !.rec.tok = FALSE])
Tok(L, o) == IF o = "ok" THEN L ELSE Failed(L)

\* state.clear()
Cleared(L) == [L EXCEPT !.st = "None", !.data = EmptyData]

\* state.clear() on a cancel signal; src records the source path it held.
Cancelled(L) ==
    [Cleared(L) EXCEPT !.cancel = TRUE, !.rec.src = L.data.video_path]

\* A file is written under a fresh name.
NewFile(L) == [L EXCEPT !.disk = @ \cup {temp_file(L.nextId)}, !.nextId = @ + 1]

\* The segment's effect with a storage that keeps one record for all users.
Apply_one_record(s, u, L) ==
    /\ L.nextId <= MaxFiles + 1
    /\ fsm_state' = [v \in Users |-> L.st]
    /\ fsm_data' = [v \in Users |-> L.data]
    /\ disk' = L.disk
    /\ nextId' = L.nextId
    /\ jobLog' = L.job
    /\ cleanLog' = cleanLog
    /\ fetchLog' = L.fetch
    /\ tasks' = [tasks EXCEPT ![s] = IF L.done THEN FreeTask ELSE L.rec]
    /\ ev' = IF L.pv \/ L.done \/ L.cancel
             THEN [pv |-> L.pv, done |-> L.done, cancel |-> L.cancel, t |-> L.rec]
             ELSE NoEv

\* The segment's effect on the state.
Apply(s, u, L) ==
    /\ L.nextId <= MaxFiles + 1
    /\ fsm_state' = [fsm_state EXCEPT ![u] = L.st]
    /\ fsm_data' = [fsm_data EXCEPT ![u] = L.data]
    /\ disk' = L.disk
    /\ nextId' = L.nextId
    /\ jobLog' = L.job
    /\ cleanLog' = cleanLog
    /\ fetchLog' = L.fetch
    /\ tasks' = [tasks EXCEPT ![s] = IF L.done THEN FreeTask ELSE L.rec]
    /\ ev' = IF L.pv \/ L.done \/ L.cancel
             THEN [pv |-> L.pv, done |-> L.done, cancel |-> L.cancel, t |-> L.rec]
             ELSE NoEv

----------------------------------------------------------------------------
(* process_video *)

\* process_video returns to its caller: process_trim_end ends, the callback
\* handlers go on to callback.answer().
pv_return(L) ==
    LET L1 == [L EXCEPT !.pv = TRUE]
    IN IF L.rec.kind = "trim_end" THEN Done(L1) ELSE At(L1, "cb_answer")

\* An exception leaves process_video: it ends a callback handler, and
\* process_trim_end catches it and answers "An error occurred".
pv_raise(L) ==
    LET L1 == [L EXCEPT !.pv = TRUE]
    IN IF L.rec.kind = "trim_end" THEN At(Reply(L1), "last_await")
                                  ELSE Done(L1)

\* The except clause, lines 799-809, and the state.clear() after it when the
\* clause awaits nothing.
pv_except(L, res) ==
    IF L.rec.emid
    THEN pv_return(Cleared(Res(L, res)))
    ELSE At(Reply(Res(L, res)), "pv_edit_error")

\* Lines 779-793 up to the await: the caption of send_audio reads
\* data.get('audio_format').upper().
pv_send_start(L) ==
    IF L.rec.d.operation = "extract_audio" /\ L.rec.d.audio_format = "none"
    THEN pv_except(L, "caption_error")
    ELSE At(L, "pv_send")

\* Lines 720-778: the job.  The processor is called without await, so the
\* call runs on the event loop's thread from start to end (pc "pv_tool").
pv_job(L, outs) ==
    LET runs == RunsOn(L.disk, L.rec.src, outs)
        r == ProcessorCall(L.rec.d, runs)
        L1 == [L EXCEPT !.job = [calls |-> r.calls,
                                 all_failed |-> \A i \in 1..r.calls : runs[i] # "ok",
                                 retrying |-> r.retrying,
                                 result |-> r.result,
                                 gif |-> L.rec.d.operation = "convert"
                                            /\ L.rec.d.target_format = "gif",
                                 any_failed |-> \E i \in 1..r.calls : runs[i] # "ok",
                                 palette |-> IF r.palette = "none" THEN NoPath
                                             ELSE temp_file(L.nextId),
                                 options |-> ProcessorOptions(L.rec.d)]]
        L2 == CASE r.palette = "left" -> NewFile(L1)
                [] r.palette = "deleted" -> [L1 EXCEPT !.nextId = @ + 1]
                [] OTHER -> L1
        L3 == [NewFile(L2) EXCEPT !.rec.out = temp_file(L2.nextId)]
    IN IF r.result # "file" THEN pv_except(L2, "encode_failed")
       ELSE IF ~L.rec.emid THEN At(L3, "pv_edit_success")
       ELSE pv_send_start(L3)

\* Lines 682-719.  With a status message to edit the handler awaits the
\* edit; without one it goes straight into the processor call.
process_video(L, edit_message_id) ==
    LET L1 == [L EXCEPT !.st = "processing", !.rec.emid = edit_message_id,
                        !.rec.d = L.data, !.rec.src = L.data.video_path]
    IN IF L.data.video_path = NoPath \/ L.data.operation = "none"
       THEN At(Reply(Res(L1, "insufficient")), "pv_insufficient")
       ELSE IF ~edit_message_id THEN At(L1, "pv_edit_processing")
       ELSE At(L1, "pv_tool")

pv_after_insufficient(L, o) ==
    IF o = "ok" THEN pv_return(Cleared(L)) ELSE pv_raise(Failed(L))

pv_after_edit_processing(L, o) ==
    IF o = "error" THEN pv_raise(Failed(L)) ELSE At(Tok(L, o), "pv_tool")

pv_after_edit_success(L, o) ==
    IF o = "error" THEN pv_except(Failed(L), "status_failed")
                   ELSE pv_send_start(Tok(L, o))

\* Lines 795-812 after send_video / send_audio.
pv_after_send(L, o) ==
    IF o = "ok"
    THEN pv_return(Cleared(Res(
            [L EXCEPT !.disk = cleanup_temp_file(
                                    cleanup_temp_file(@, L.rec.src).files,
                                    L.rec.out).files],
            "success")))
    ELSE pv_except(Failed(L), "send_failed")

pv_after_edit_error(L, o) ==
    IF o = "error" THEN pv_raise(Failed(L)) ELSE pv_return(Cleared(Tok(L, o)))

----------------------------------------------------------------------------
(* The handlers of handlers/video_handlers.py and handlers/commands.py *)

\* The source handlers with update_data(original_message_id=...) moved in
\* front of the checks.
source_dispatch_stores_first(L, url_ok, allowed, ack) ==
    LET L1 == [L EXCEPT !.data.original_message_id = ~@]
    IN IF ~url_ok THEN At(Res(L1, "invalid_input"), "last_await")
       ELSE IF ~allowed THEN At(Res(L1, "rate_limited"), "last_await")
       ELSE At([L EXCEPT !.data.original_message_id = TRUE], ack)

\* handle_video_upload and handle_video_url up to their first await.
source_dispatch(L, url_ok, allowed, ack) ==
    IF ~url_ok THEN At(Res(L, "invalid_input"), "last_await")
    ELSE IF ~allowed THEN At(Res(L, "rate_limited"), "last_await")
    ELSE At([L EXCEPT !.data.original_message_id = TRUE], ack)

\* Lines 88-105 / 152-167: what the download returned.
source_fetched(L, r) ==
    IF r = "file"
    THEN At([NewFile(L) EXCEPT !.rec.src = temp_file(L.nextId),
                               !.data.video_path = temp_file(L.nextId)], "up_show")
    ELSE At(Reply(Res(IF r = "none_partial" THEN NewFile(L) ELSE L,
                      "fetch_failed")), "up_fail_reply")

\* download_from_telegram, line 45: temp_dir / "download_<hex>.mp4" with hex
\* the four bytes os.urandom returns (h stands for them; the suffix is the
\* same for every download).
download_path(h) ==
    TEMP_DIR \o <<"/", "d", "o", "w", "n", "l", "o", "a", "d", "_", h>>

\* source_fetched with the name the downloader generated, where
\* source_fetched takes a name no file has had.
source_fetched_as(L, r, file_path) ==
    IF r = "file"
    THEN At([L EXCEPT !.disk = @ \cup {file_path}, !.rec.src = file_path,
                      !.data.video_path = file_path], "up_show")
    ELSE At(Reply(Res(IF r = "none_partial"
                      THEN [L EXCEPT !.disk = @ \cup {file_path}] ELSE L,
                      "fetch_failed")), "up_fail_reply")

up_ack(L, o) == IF o = "ok" THEN At(L, "up_download") ELSE Abort(L)

\* VideoDownloader.download_from_url: yt-dlp ends with r, the file it wrote
\* has file_size_mb MB.  A file over the ceiling is removed and None is
\* returned unless user_id is an admin's.
download_from_url(r, file_size_mb, user_id) ==
    IF r = "file" /\ user_id \notin ADMIN_USER_IDS
                  /\ file_size_mb > MAX_FILE_SIZE_MB
    THEN "none"
    ELSE r

\* Lines 154-167: handle_video_url calls download_from_url(url), without a
\* user_id.
url_fetched(L, r, file_size_mb) ==
    LET video_file == download_from_url(r, file_size_mb, NoUser)
    IN [source_fetched(L, video_file) EXCEPT
           !.fetch = [user |-> L.rec.user,
                      size |-> IF r = "file" THEN file_size_mb ELSE 0,
                      result |-> video_file]]

\* download_from_url is called without await: it runs on the event loop's
\* thread as soon as the answer returned (pc "url_download").
url_ack(L, o) == IF o = "ok" THEN At(L, "url_download") ELSE Abort(L)

up_show(L, o) ==
    IF o = "ok" THEN Done([L EXCEPT !.st = "waiting_for_operation"])
    ELSE At(Reply(Res(Failed(L), "handler_error")), "up_err_reply")

up_fail_reply(L, o) ==
    IF o = "ok" THEN Done(L) ELSE At(Reply(Failed(L)), "up_err_reply")

up_err_reply(L, o) == IF o = "ok" THEN Done(Cleared(L)) ELSE Abort(L)

StateOfOperation(op) ==
    CASE op = "convert" -> "waiting_for_format"
      [] op = "compress" -> "waiting_for_quality"
      [] op = "extract_audio" -> "waiting_for_audio_format"
      [] op = "trim" -> "waiting_for_trim_start"

\* process_operation_selection up to its first await.
process_operation_selection(L, op) ==
    IF op \in Operations
    THEN At([L EXCEPT !.data.operation = op], "op_edit")
    ELSE At([L EXCEPT !.data.operation = op], "cb_answer")

op_edit(L, o) ==
    IF o = "ok" THEN At([L EXCEPT !.st = StateOfOperation(L.rec.arg)], "cb_answer")
    ELSE Abort(L)

\* The cancel branch of the four selection handlers.
cancel_edit(L, o) ==
    IF o = "ok" THEN At(Cancelled(L), "cb_answer") ELSE Abort(L)

\* process_format_selection up to its first await.
process_format_selection(L, v) ==
    IF v = "cancel" THEN At(L, "cancel_edit")
    ELSE At([L EXCEPT !.data.target_format = v], "fmt_markup")

fmt_markup(L, o) ==
    IF o = "ok" THEN process_video(L, FALSE) ELSE Abort(L)

\* process_quality_selection up to its first await.
process_quality_selection(L, v) ==
    IF v = "cancel" THEN At(L, "cancel_edit")
    ELSE process_video([L EXCEPT !.data.quality = v], FALSE)

\* process_audio_format_selection up to its first await.
process_audio_format_selection(L, v) ==
    IF v = "cancel" THEN At(L, "cancel_edit")
    ELSE At([L EXCEPT !.data.audio_format = v], "af_edit")

af_edit(L, o) ==
    IF o = "ok" THEN At([L EXCEPT !.st = "waiting_for_audio_bitrate"], "cb_answer")
    ELSE Abort(L)

\* process_bitrate_selection up to its first await.
process_bitrate_selection(L, v) ==
    IF v = "cancel" THEN At(L, "cancel_edit")
    ELSE process_video([L EXCEPT !.data.bitrate = v], FALSE)

\* process_trim_start up to its first await.
process_trim_start(L, text) ==
    LET p == parse_time_format(text)
    IN IF ~p.ok \/ (p.val # NaN /\ p.val < 0)
       THEN At(Res(L, "invalid_input"), "last_await")
       ELSE At([L EXCEPT !.data.trim_start = p.val], "ts_prompt")

ts_prompt(L, o) ==
    IF o = "ok" THEN Done([L EXCEPT !.st = "waiting_for_trim_end"]) ELSE Abort(L)

\* process_trim_end up to its first await.
process_trim_end(L, text) ==
    LET e == trim_end_of(text, IF L.data.trim_start = NoTime THEN 0
                                                             ELSE L.data.trim_start)
    IN IF e.ok THEN At([L EXCEPT !.data.trim_end = e.val], "te_ack")
       ELSE At(Res(L, "invalid_input"), "te_refused")

\* The answer that turns a text down is inside the try block.
te_refused(L, o) ==
    IF o = "ok" THEN Done(L) ELSE At(Failed(L), "last_await")

te_ack(L, o) ==
    IF o = "ok" THEN process_video(L, TRUE)
    ELSE At(Reply(Failed(L)), "last_await")

\* cmd_cancel up to its first await.
cmd_cancel(L) ==
    IF L.st = "None" THEN At(L, "last_await")
    ELSE At(Cancelled(L), "last_await")

\* The last await of a handler: it ends whether the call returns or raises.
last_await(L, o) == Done(Tok(L, o))
----------------------------------------------------------------------------
(* The updates of a user: the dispatcher starts the first matching handler
   in a task of its own, and the handler runs to its first await. *)

Start(u, kind, arg) == Seg(u, NewTask(u, kind, arg))

\* The calls made without await: the processor call of process_video and
\* download_from_url.
SyncPcs == {"pv_tool", "url_download"}

\* The event loop's thread is inside a synchronous call: until the call
\* returns the loop dispatches no update and resumes no handler.
Busy == \E s \in Slots : tasks[s].pc \in SyncPcs

\* An update is dispatched while a task slot is free.
Update ==
    /\ ~Busy
    /\ HasFree
    /\ updates < MaxUpdates
    /\ updates' = updates + 1
    /\ failures' = failures

\* A transport call ends with outcome o.
Outcome(o) ==
    /\ o # "ok" => failures < MaxFailures
    /\ failures' = IF o # "ok" THEN failures + 1 ELSE failures
    /\ updates' = updates

\* message.video.file_size, in MB: the size Telegram declares for the video.
DeclaredSizes == {10, 60}

\* A message with a video of the declared size, in any state:
\* handle_video_upload.
VideoOfSize(u, file_size) ==
    /\ Update
    /\ LET r == check_rate_limit(user_requests[u], u, now, now)
       IN /\ RateLimitCall(u, now, r)
          /\ Apply(FreeSlot, u,
                   source_dispatch([Start(u, "upload", "none")
                                       EXCEPT !.rec.size = file_size],
                                   TRUE, r.allowed, "up_ack"))

VideoMessage(u) == \E file_size \in DeclaredSizes : VideoOfSize(u, file_size)

\* A video within the size ceiling.
SmallVideoMessage(u) ==
    \E file_size \in {z \in DeclaredSizes : z <= MAX_FILE_SIZE_MB} :
        VideoOfSize(u, file_size)

\* The links of the model, as message texts.
Urls ==
    {"https://youtube.com/v",
     "http://www.vimeo.com/v",
     "https://example.com/v",
     "https://m.youtube.com/v",
     "https://youtube.com",
     "https://example.com/youtu.be/v"}

\* The links the conversations of one user use: one that is_valid_video_url
\* accepts and one that it refuses.
SampleUrls == {"https://youtube.com/v", "https://example.com/v"}

\* The characters of a link.
Chars(url) ==
    CASE url = "https://youtube.com/v" ->
            <<"h", "t", "t", "p", "s", ":", "/", "/", "y", "o", "u", "t",
              "u", "b", "e", ".", "c", "o", "m", "/", "v">>
      [] url = "http://www.vimeo.com/v" ->
            <<"h", "t", "t", "p", ":", "/", "/", "w", "w", "w", ".", "v",
              "i", "m", "e", "o", ".", "c", "o", "m", "/", "v">>
      [] url = "https://example.com/v" ->
            <<"h", "t", "t", "p", "s", ":", "/", "/", "e", "x", "a", "m",
              "p", "l", "e", ".", "c", "o", "m", "/", "v">>
      [] url = "https://m.youtube.com/v" ->
            <<"h", "t", "t", "p", "s", ":", "/", "/", "m", ".", "y", "o",
              "u", "t", "u", "b", "e", ".", "c", "o", "m", "/", "v">>
      [] url = "https://youtube.com" ->
            <<"h", "t", "t", "p", "s", ":", "/", "/", "y", "o", "u", "t",
              "u", "b", "e", ".", "c", "o", "m">>
      [] url = "https://example.com/youtu.be/v" ->
            <<"h", "t", "t", "p", "s", ":", "/", "/", "e", "x", "a", "m",
              "p", "l", "e", ".", "c", "o", "m", "/", "y", "o", "u", "t",
              "u", ".", "b", "e", "/", "v">>

\* The hosts named in the pattern of is_valid_video_url.
Domains ==
    {<<"y", "o", "u", "t", "u", "b", "e", ".", "c", "o", "m">>,
     <<"y", "o", "u", "t", "u", ".", "b", "e">>,
     <<"v", "i", "m", "e", "o", ".", "c", "o", "m">>,
     <<"d", "a", "i", "l", "y", "m", "o", "t", "i", "o", "n", ".", "c", "o", "m">>,
     <<"f", "a", "c", "e", "b", "o", "o", "k", ".", "c", "o", "m">>,
     <<"i", "n", "s", "t", "a", "g", "r", "a", "m", ".", "c", "o", "m">>}

\* s without prefix, when s starts with it.
removeprefix(str, prefix) ==
    IF startswith(str, prefix) THEN SubSeq(str, Len(prefix) + 1, Len(str))
    ELSE str

\* is_valid_video_url with the list of hosts left out of the pattern:
\* '^(https?://)?(www\.)?.*/.*'
is_valid_video_url_any_host(url) ==
    \E i \in 1..Len(url) : url[i] = "/"

\* is_valid_video_url: re.match of
\* '^(https?://)?(www\.)?(youtube\.com|...|instagram\.com)/.*' on the
\* characters of the link.  No host of the list begins with "http" or
\* "www.", so the optional groups match whenever they can.
is_valid_video_url(url) ==
    LET a == IF startswith(url, <<"h", "t", "t", "p", "s", ":", "/", "/">>)
             THEN removeprefix(url, <<"h", "t", "t", "p", "s", ":", "/", "/">>)
             ELSE removeprefix(url, <<"h", "t", "t", "p", ":", "/", "/">>)
        b == removeprefix(a, <<"w", "w", "w", ".">>)
    IN \E d \in Domains : startswith(b, d \o <<"/">>)

\* handle_video_url with the limiter asked before the link is looked at.
UrlOf_limiter_first(u, url) ==
    /\ Update
    /\ LET r == check_rate_limit(user_requests[u], u, now, now)
       IN /\ RateLimitCall(u, now, r)
          /\ Apply(FreeSlot, u,
                   source_dispatch(Start(u, "url", url),
                                   is_valid_video_url(Chars(url)), r.allowed,
                                   "url_ack"))

\* A text with the link url, in any state: handle_video_url.  The limiter
\* is reached by the links is_valid_video_url accepts.
UrlOf(u, url) ==
    /\ Update
    /\ IF ~is_valid_video_url(Chars(url))
       THEN /\ UNCHANGED quotaVars
            /\ Apply(FreeSlot, u,
                     source_dispatch(Start(u, "url", url), FALSE, FALSE,
                                     "url_ack"))
       ELSE LET r == check_rate_limit(user_requests[u], u, now, now)
            IN /\ RateLimitCall(u, now, r)
               /\ Apply(FreeSlot, u,
                        source_dispatch(Start(u, "url", url), TRUE, r.allowed,
                                        "url_ack"))

UrlMessage(u) == \E url \in SampleUrls : UrlOf(u, url)

\* Any link of the model.
LinkMessage(u) == \E url \in Urls : UrlOf(u, url)

\* A button with callback data "operation:<op>", in any state.
OperationCallback(u) ==
    /\ Update
    /\ UNCHANGED quotaVars
    /\ \E op \in OperationCallbacks :
          Apply(FreeSlot, u,
                process_operation_selection(Start(u, "operation", op), op))

FormatCallback(u) ==
    /\ Update
    /\ fsm_state[u] = "waiting_for_format"
    /\ UNCHANGED quotaVars
    /\ \E v \in Formats \cup {"cancel"} :
          Apply(FreeSlot, u, process_format_selection(Start(u, "format", v), v))

QualityCallback(u) ==
    /\ Update
    /\ fsm_state[u] = "waiting_for_quality"
    /\ UNCHANGED quotaVars
    /\ \E v \in Qualities \cup {"cancel"} :
          Apply(FreeSlot, u,
                process_quality_selection(Start(u, "quality", v), v))

AudioFormatCallback(u) ==
    /\ Update
    /\ fsm_state[u] = "waiting_for_audio_format"
    /\ UNCHANGED quotaVars
    /\ \E v \in AudioFormats \cup {"cancel"} :
          Apply(FreeSlot, u,
                process_audio_format_selection(Start(u, "audio_format", v), v))

BitrateCallback(u) ==
    /\ Update
    /\ fsm_state[u] = "waiting_for_audio_bitrate"
    /\ UNCHANGED quotaVars
    /\ \E v \in Bitrates \cup {"cancel"} :
          Apply(FreeSlot, u,
                process_bitrate_selection(Start(u, "bitrate", v), v))

TrimStartMessage(u) ==
    /\ Update
    /\ fsm_state[u] = "waiting_for_trim_start"
    /\ UNCHANGED quotaVars
    /\ \E text \in TrimStartTexts :
          Apply(FreeSlot, u,
                process_trim_start(Start(u, "trim_start", "text"), text))

\* Any of TimeTexts in waiting_for_trim_start.
TimeTextMessage(u) ==
    /\ Update
    /\ fsm_state[u] = "waiting_for_trim_start"
    /\ UNCHANGED quotaVars
    /\ \E text \in DOMAIN TimeTexts :
          Apply(FreeSlot, u,
                process_trim_start(Start(u, "trim_start", text), TimeTexts[text]))

TrimEndMessage(u) ==
    /\ Update
    /\ fsm_state[u] = "waiting_for_trim_end"
    /\ UNCHANGED quotaVars
    /\ \E text \in TrimEndTexts :
          Apply(FreeSlot, u, process_trim_end(Start(u, "trim_end", "text"), text))

\* A preset of the end keyboard, or "+N", in waiting_for_trim_end.
PresetMessage(u) ==
    /\ Update
    /\ fsm_state[u] = "waiting_for_trim_end"
    /\ UNCHANGED quotaVars
    /\ \E name \in PresetNames :
          Apply(FreeSlot, u,
                process_trim_end(Start(u, "trim_end", name), PresetText(name)))

\* One of PlusTexts in waiting_for_trim_end.
PlusTextMessage(u) ==
    /\ Update
    /\ fsm_state[u] = "waiting_for_trim_end"
    /\ UNCHANGED quotaVars
    /\ \E text \in DOMAIN PlusTexts :
          Apply(FreeSlot, u,
                process_trim_end(Start(u, "trim_end", text), PlusTexts[text]))

\* Any of the three quality buttons of show_quality_options.
TierCallback(u) ==
    /\ Update
    /\ fsm_state[u] = "waiting_for_quality"
    /\ UNCHANGED quotaVars
    /\ \E v \in {"low", "medium", "high"} :
          Apply(FreeSlot, u,
                process_quality_selection(Start(u, "quality", v), v))

CancelCommand(u) ==
    /\ Update
    /\ UNCHANGED quotaVars
    /\ Apply(FreeSlot, u, cmd_cancel(Start(u, "cancel", "none")))

----------------------------------------------------------------------------
(* A suspended handler goes on when its await ends. *)

\* The awaits after which only the handler's own code runs.
after_transport(L, o) ==
    CASE L.rec.pc = "up_ack" -> up_ack(L, o)
      [] L.rec.pc = "up_show" -> up_show(L, o)
      [] L.rec.pc = "up_fail_reply" -> up_fail_reply(L, o)
      [] L.rec.pc = "up_err_reply" -> up_err_reply(L, o)
      [] L.rec.pc = "op_edit" -> op_edit(L, o)
      [] L.rec.pc = "cancel_edit" -> cancel_edit(L, o)
      [] L.rec.pc = "af_edit" -> af_edit(L, o)
      [] L.rec.pc = "ts_prompt" -> ts_prompt(L, o)
      [] L.rec.pc = "te_refused" -> te_refused(L, o)
      [] L.rec.pc = "pv_insufficient" -> pv_after_insufficient(L, o)
      [] L.rec.pc = "pv_edit_success" -> pv_after_edit_success(L, o)
      [] L.rec.pc = "pv_send" -> pv_after_send(L, o)
      [] L.rec.pc = "pv_edit_error" -> pv_after_edit_error(L, o)
      [] L.rec.pc = "cb_answer" -> last_await(L, o)
      [] L.rec.pc = "last_await" -> last_await(L, o)

TransportPcs ==
    {"up_ack", "up_show", "up_fail_reply", "up_err_reply", "op_edit",
     "cancel_edit", "af_edit", "ts_prompt", "te_refused", "pv_insufficient",
     "pv_edit_success", "pv_send", "pv_edit_error", "cb_answer", "last_await"}

TransportReturns(s) ==
    /\ ~Busy
    /\ tasks[s].pc \in TransportPcs
    /\ UNCHANGED quotaVars
    /\ \E o \in TransportOutcomes :
          /\ Outcome(o)
          /\ Apply(s, tasks[s].user, after_transport(Seg(tasks[s].user, tasks[s]), o))

\* download_from_telegram ends.
DownloadReturns(s) ==
    /\ ~Busy
    /\ tasks[s].pc = "up_download"
    /\ UNCHANGED quotaVars
    /\ UNCHANGED <<updates, failures>>
    /\ \E r \in DownloadOutcomes :
          Apply(s, tasks[s].user, source_fetched(Seg(tasks[s].user, tasks[s]), r))

\* The values os.urandom(4).hex() gives in the model: any of them at any
\* call.
UrandomHex == {"0", "1"}

\* download_from_telegram ends, having written to the path it generated.
DownloadReturnsNamed(s) ==
    /\ ~Busy
    /\ tasks[s].pc = "up_download"
    /\ UNCHANGED quotaVars
    /\ UNCHANGED <<updates, failures>>
    /\ \E r \in DownloadOutcomes, h \in UrandomHex :
          Apply(s, tasks[s].user,
                source_fetched_as(Seg(tasks[s].user, tasks[s]), r,
                                  download_path(h)))

\* The answer of handle_video_url ends; download_from_url is entered at once.
UrlAckReturns(s) ==
    /\ ~Busy
    /\ tasks[s].pc = "url_ack"
    /\ UNCHANGED quotaVars
    /\ \E o \in TransportOutcomes :
          /\ Outcome(o)
          /\ Apply(s, tasks[s].user, url_ack(Seg(tasks[s].user, tasks[s]), o))

\* download_from_url returns.
UrlDownloadReturns(s) ==
    /\ tasks[s].pc = "url_download"
    /\ UNCHANGED quotaVars
    /\ UNCHANGED <<updates, failures>>
    /\ \E r \in DownloadOutcomes, file_size_mb \in DeclaredSizes :
          Apply(s, tasks[s].user,
                url_fetched(Seg(tasks[s].user, tasks[s]), r, file_size_mb))

\* The awaits after which the processor may run.
before_job(L, o) ==
    CASE L.rec.pc = "fmt_markup" -> fmt_markup(L, o)
      [] L.rec.pc = "te_ack" -> te_ack(L, o)
      [] L.rec.pc = "pv_edit_processing" -> pv_after_edit_processing(L, o)

JobPcs == {"fmt_markup", "te_ack", "pv_edit_processing"}

JobStarts(s) ==
    /\ ~Busy
    /\ tasks[s].pc \in JobPcs
    /\ UNCHANGED quotaVars
    /\ \E o \in TransportOutcomes :
          /\ Outcome(o)
          /\ Apply(s, tasks[s].user, before_job(Seg(tasks[s].user, tasks[s]), o))

\* The processor call returns: the tool has run, with its retries.
ToolReturns(s) ==
    /\ tasks[s].pc = "pv_tool"
    /\ UNCHANGED quotaVars
    /\ UNCHANGED <<updates, failures>>
    /\ \E outs \in ToolRuns :
          Apply(s, tasks[s].user, pv_job(Seg(tasks[s].user, tasks[s]), outs))

----------------------------------------------------------------------------
\* No direct call of cleanup_temp_file yet.
NoClean == [path |-> NoPath, existed |-> FALSE, deleted |-> FALSE,
            gone |-> FALSE, repeat |-> FALSE]

InitQuota ==
    /\ now = 0
    /\ user_requests = [u \in Users |-> <<>>]
    /\ admitted = [u \in Users |-> <<>>]
    /\ adminCalls = 0
    /\ lastCheck = NoCheck

InitSession ==
    /\ fsm_state = [u \in Users |-> "None"]
    /\ fsm_data = [u \in Users |-> EmptyData]
    /\ disk = {}
    /\ nextId = 1
    /\ tasks = [s \in Slots |-> FreeTask]
    /\ jobLog = NoJob
    /\ ev = NoEv
    /\ updates = 0
    /\ failures = 0
    /\ cleanLog = NoClean
    /\ fetchLog = NoFetch

Init == InitQuota /\ InitSession

NextQuota == Tick \/ (\E u \in Users : Admit(u))

\* The rate limiter on its own, for two users and a moving clock.
SpecQuota == Init /\ [][NextQuota]_vars

Next ==
    \/ \E u \in SessionUsers : VideoMessage(u)
    \/ \E u \in SessionUsers : UrlMessage(u)
    \/ \E u \in SessionUsers : OperationCallback(u)
    \/ \E u \in SessionUsers : FormatCallback(u)
    \/ \E u \in SessionUsers : QualityCallback(u)
    \/ \E u \in SessionUsers : AudioFormatCallback(u)
    \/ \E u \in SessionUsers : BitrateCallback(u)
    \/ \E u \in SessionUsers : TrimStartMessage(u)
    \/ \E u \in SessionUsers : TrimEndMessage(u)
    \/ \E u \in SessionUsers : CancelCommand(u)
    \/ \E s \in Slots : TransportReturns(s)
    \/ \E s \in Slots : DownloadReturns(s)
    \/ \E s \in Slots : UrlAckReturns(s)
    \/ \E s \in Slots : JobStarts(s)
    \/ \E s \in Slots : UrlDownloadReturns(s)
    \/ \E s \in Slots : ToolReturns(s)

\* The conversations of one user.
Spec == Init /\ [][Next]_vars

----------------------------------------------------------------------------
(* C1 *)

\* The admitted requests of u with a timestamp in the window (t - 60, t].
AdmittedInWindow(u, t) ==
    Cardinality({i \in 1..Len(admitted[u]) :
                    /\ admitted[u][i] > t - window_seconds
                    /\ admitted[u][i] <= t})

\* C1: a user who is not an admin never has more than the ceiling of admitted
\* requests in any trailing 60-second window (t - 60, t], and every call by
\* an admin is allowed.
C1_AdmitCeiling ==
    /\ \A u \in Users \ ADMIN_USER_IDS :
          \A t \in 0..MaxTime :
              AdmittedInWindow(u, t) <= MAX_REQUESTS_PER_MINUTE
    /\ lastCheck.user \in ADMIN_USER_IDS => lastCheck.allowed

\* A sixth request was denied inside the window, a later one admitted again,
\* and the admin has been admitted more often than the ceiling.
C1_Witness ==
    /\ Len(admitted[1]) > MAX_REQUESTS_PER_MINUTE
    /\ lastCheck.user = 1 /\ ~lastCheck.allowed
    /\ adminCalls > MAX_REQUESTS_PER_MINUTE

----------------------------------------------------------------------------
(* C2 *)

\* A job in execution: process_video has produced the output file and is
\* reporting or delivering it.
JobLive(t) == t.pc \in {"pv_edit_success", "pv_send"}

\* The task that takes the step, when the step is one of slot s.
Stepping(s) == IF tasks[s].pc = "free" THEN tasks'[s] ELSE tasks[s]

\* C2: for every user, under every interleaving of the user's updates, at
\* most one media job of that user is in execution at any time.
C2_OneJobPerUser ==
    \A u \in SessionUsers :
        Cardinality({s \in Slots : tasks[s].user = u /\ JobLive(tasks[s])}) <= 1

----------------------------------------------------------------------------
(* C3 *)

\* C3: a video or a link sent while the user's session is not Idle and holds
\* a source file never replaces the stored source path and never resets the
\* phase to waiting_for_operation.
C3_SourceEventKeepsSession ==
    [][\A s \in Slots :
          (/\ tasks'[s] # tasks[s]
           /\ Stepping(s).kind \in {"upload", "url"}
           /\ Stepping(s).st0 # "None"
           /\ fsm_state[Stepping(s).user] # "None"
           /\ fsm_data[Stepping(s).user].video_path # NoPath)
          => /\ fsm_data'[Stepping(s).user].video_path
                  = fsm_data[Stepping(s).user].video_path
             /\ fsm_state'[Stepping(s).user] = "waiting_for_operation"
                  => fsm_state[Stepping(s).user] = "waiting_for_operation"]_vars

----------------------------------------------------------------------------
(* C4 *)

\* C4: a cancel signal (the /cancel command or a cancel button) arriving in a
\* phase other than Idle and Executing leaves the session Idle with its
\* parameters discarded and the session's temporary source file deleted.
C4_CancelDeletesSource ==
    (ev.cancel /\ ev.t.st0 \notin {"None", "processing"})
    => /\ fsm_state[ev.t.user] = "None"
       /\ fsm_data[ev.t.user] = EmptyData
       /\ ev.t.src \notin disk

----------------------------------------------------------------------------
(* C5 *)

\* C5: a run of the job executor whose tool fails on every invocation invokes
\* the tool exactly 3 times before it reports failure, and a run with a
\* successful invocation reports success.
C5_ThreeAttempts ==
    jobLog.retrying
    => /\ jobLog.all_failed => jobLog.calls = stop_after_attempt
                               /\ jobLog.result # "file"
       /\ ~jobLog.all_failed => jobLog.result = "file"

----------------------------------------------------------------------------
(* C6 *)

\* C6: when a job fails (the tool reports failure, or the delivery of the
\* output fails), the session is Idle again and neither the source file nor
\* the output file of the job is left on disk.
C6_FailedJobCleansUp ==
    (ev.pv /\ ev.t.res \in {"encode_failed", "send_failed"})
    => /\ fsm_state[ev.t.user] = "None"
       /\ ev.t.src \notin disk
       /\ ev.t.out \notin disk

----------------------------------------------------------------------------
(* C7 *)

\* C7: while a job's output is being delivered, neither its source file nor
\* its output file has been deleted: deletion comes after the delivery.
C7_DeliverBeforeDelete ==
    \A s \in Slots :
        tasks[s].pc = "pv_send"
        => tasks[s].src \in disk /\ tasks[s].out \in disk

----------------------------------------------------------------------------
(* C8 *)

\* C8: every terminal error of a session (the source could not be fetched,
\* the encoding failed, the session data was insufficient), for every
\* operation, produces exactly one failure reply when the transport works.
C8_OneFailureReply ==
    ((ev.pv \/ ev.done)
       /\ ev.t.res \in {"fetch_failed", "encode_failed", "insufficient"}
       /\ ev.t.tok)
    => ev.t.replies = 1

----------------------------------------------------------------------------
(* C9 *)

\* C9: the handling of the Back button pressed in waiting_for_format or
\* waiting_for_quality, in a session that holds a source file, changes none
\* of the stored parameters, and when it has ended without a transport
\* failure the session is in waiting_for_operation.
C9_BackReturnsToOperation ==
    [][\A s \in Slots :
          (/\ tasks'[s] # tasks[s]
           /\ Stepping(s).kind = "operation" /\ Stepping(s).arg = "back"
           /\ Stepping(s).st0 \in {"waiting_for_format", "waiting_for_quality"}
           /\ fsm_data[Stepping(s).user].video_path \in disk)
          => /\ fsm_data'[Stepping(s).user] = fsm_data[Stepping(s).user]
             /\ (ev'.done /\ ev'.t.tok)
                  => fsm_state'[Stepping(s).user] = "waiting_for_operation"]_vars

----------------------------------------------------------------------------
(* C10 *)

\* The order of the phases: Idle, operation selection, the parameter phases
\* of the operation, Executing, Idle; Back from the format and quality
\* selection; cancel from anywhere.
PhaseOrder(a, b) ==
    \/ a = "None" /\ b = "waiting_for_operation"
    \/ a = "waiting_for_operation" /\ b \in {StateOfOperation(op) : op \in Operations}
    \/ a = "waiting_for_audio_format" /\ b = "waiting_for_audio_bitrate"
    \/ a = "waiting_for_trim_start" /\ b = "waiting_for_trim_end"
    \/ /\ a \in {"waiting_for_format", "waiting_for_quality",
                 "waiting_for_audio_bitrate", "waiting_for_trim_end"}
       /\ b = "processing"
    \/ a \in {"waiting_for_format", "waiting_for_quality"}
          /\ b = "waiting_for_operation"
    \/ b = "None"

\* C10: the phase of a session changes only along the order of the phases,
\* and an operation button pressed in a phase other than
\* waiting_for_operation changes neither the phase nor the stored operation.
C10_PhasesInOrder ==
    [][\A u \in SessionUsers :
          /\ fsm_state'[u] # fsm_state[u]
                => PhaseOrder(fsm_state[u], fsm_state'[u])
          /\ \A s \in Slots :
                (/\ tasks'[s] # tasks[s]
                 /\ Stepping(s).user = u
                 /\ Stepping(s).kind = "operation"
                 /\ Stepping(s).arg \in Operations
                 /\ Stepping(s).st0 # "waiting_for_operation")
                => /\ fsm_state'[u] = fsm_state[u]
                   /\ fsm_data'[u].operation = fsm_data[u].operation]_vars

----------------------------------------------------------------------------
(* C11 *)

\* data.get("trim_start", 0)
StartOf(data) == IF data.trim_start = NoTime THEN 0 ELSE data.trim_start

\* C11: a text received in waiting_for_trim_end that stores an end time
\* stores one strictly greater than the stored start time, and a text that
\* is turned down stores nothing and leaves the phase as it was.
C11_EndAfterStart ==
    [][\A s \in Slots :
          (tasks[s].pc = "free" /\ tasks'[s].kind = "trim_end")
          => /\ (tasks'[s].pc = "te_ack"
                   /\ fsm_data'[tasks'[s].user].trim_end # NoTime)
                  => fsm_data'[tasks'[s].user].trim_end
                        > StartOf(fsm_data[tasks'[s].user])
             /\ tasks'[s].pc = "te_refused"
                  => /\ fsm_data'[tasks'[s].user] = fsm_data[tasks'[s].user]
                     /\ fsm_state'[tasks'[s].user] = fsm_state[tasks'[s].user]]_vars

----------------------------------------------------------------------------
(* C12 *)

\* C12: whenever a user's session is Idle and no handler is in progress, no
\* temporary file (source, output or palette) is left on disk.
C12_IdleLeavesNoFiles ==
    ((\A u \in SessionUsers : fsm_state[u] = "None")
        /\ \A s \in Slots : tasks[s].pc = "free")
    => disk = {}

----------------------------------------------------------------------------
(* C13 *)

\* Two users on the one event loop: both send videos, and one of them also
\* sends links and goes on to pick an operation and a compression quality.
NextLoop ==
    \/ \E u \in Users : SmallVideoMessage(u)
    \/ \E u \in SessionUsers : UrlMessage(u)
    \/ \E u \in SessionUsers : OperationCallback(u)
    \/ \E u \in SessionUsers : QualityCallback(u)
    \/ \E s \in Slots : TransportReturns(s)
    \/ \E s \in Slots : DownloadReturns(s)
    \/ \E s \in Slots : UrlAckReturns(s)
    \/ \E s \in Slots : JobStarts(s)
    \/ \E s \in Slots : UrlDownloadReturns(s)
    \/ \E s \in Slots : ToolReturns(s)

SpecLoop == Init /\ [][NextLoop]_vars

\* C13: while the link download or the job of one user is in progress, a
\* handler of another user whose await has ended can go on, and an update of
\* another user can be dispatched.
C13_OtherUsersProceed ==
    \A s \in Slots :
        tasks[s].pc \in SyncPcs
        => /\ \A t \in Slots :
                 (tasks[t].pc \in TransportPcs /\ tasks[t].user # tasks[s].user)
                 => ENABLED TransportReturns(t)
           /\ \A u \in Users \ {tasks[s].user} :
                 (HasFree /\ updates < MaxUpdates)
                 => ENABLED SmallVideoMessage(u)

----------------------------------------------------------------------------
(* C14 *)

\* C14: while a user's session is in processing, no step of a handler that
\* was dispatched for an update received in processing changes the session's
\* phase, its parameters or its source path (the session holds a source file).
C14_ExecutingIgnoresEvents ==
    [][\A s \in Slots :
          (/\ tasks'[s] # tasks[s]
           /\ Stepping(s).st0 = "processing"
           /\ fsm_state[Stepping(s).user] = "processing"
           /\ fsm_data[Stepping(s).user].video_path \in disk)
          => /\ fsm_state'[Stepping(s).user] = "processing"
             /\ [fsm_data'[Stepping(s).user] EXCEPT !.original_message_id =
                    fsm_data[Stepping(s).user].original_message_id]
                  = fsm_data[Stepping(s).user]]_vars

----------------------------------------------------------------------------
(* C15 *)

\* C15: when the handler of a video or a link ends after the download failed
\* (and its replies went through), with no other handler in progress, the
\* user's session is Idle and stores no parameter and no source path,
\* whatever phase other than Idle it was in when the source arrived.
C15_FailedFetchResets ==
    (ev.done /\ ev.t.kind \in {"upload", "url"} /\ ev.t.res = "fetch_failed"
        /\ ev.t.tok /\ ev.t.st0 # "None"
        /\ \A s \in Slots : tasks[s].pc = "free")
    => /\ fsm_state[ev.t.user] = "None"
       /\ [fsm_data[ev.t.user] EXCEPT !.original_message_id = FALSE] = EmptyData

----------------------------------------------------------------------------
(* C16 *)

\* cmd_help: the limiter is consulted and the session is not touched.
HelpCommand(u) ==
    /\ ~Busy
    /\ RateLimitCall(u, now, check_rate_limit(user_requests[u], u, now, now))
    /\ UNCHANGED sessionVars

\* One user who also asks for help: uploads, the trim conversation, and the
\* limiter shared by /help and handle_video_upload.
NextAdmission ==
    \/ \E u \in SessionUsers : HelpCommand(u)
    \/ \E u \in SessionUsers : SmallVideoMessage(u)
    \/ \E u \in SessionUsers : OperationCallback(u)
    \/ \E u \in SessionUsers : TrimStartMessage(u)
    \/ \E u \in SessionUsers : TrimEndMessage(u)
    \/ \E s \in Slots : TransportReturns(s)
    \/ \E s \in Slots : DownloadReturns(s)
    \/ \E s \in Slots : JobStarts(s)
    \/ \E s \in Slots : ToolReturns(s)

SpecAdmission == Init /\ [][NextAdmission]_vars

\* The results of a handler that turned its update down.
Rejections == {"rate_limited", "invalid_input"}

\* C16: no step of a handler that turns its update down, for the rate limit
\* or for an input it cannot use, changes the phase, the parameters or the
\* source path of the user's session.
C16_RejectionKeepsSession ==
    [][\A s \in Slots :
          (tasks'[s] # tasks[s]
             /\ (tasks[s].res \in Rejections \/ tasks'[s].res \in Rejections))
          => /\ fsm_state'[Stepping(s).user] = fsm_state[Stepping(s).user]
             /\ fsm_data'[Stepping(s).user] = fsm_data[Stepping(s).user]]_vars

\* A source was turned down for the rate limit while the session was past
\* Idle and held a source file.
C16_Witness ==
    /\ ev.done /\ ev.t.res = "rate_limited"
    /\ fsm_state[ev.t.user] \notin {"None", "waiting_for_operation"}
    /\ fsm_data[ev.t.user].video_path \in disk

----------------------------------------------------------------------------
(* C17, C18: cleanup_temp_file called directly, on paths inside the temp
   directory, in a directory whose name begins with the temp directory's
   name, and elsewhere. *)

\* The file names in each directory.
MaxNames == 2

\* "temp/<n>", "temp2/<n>" and "var/<n>".
Paths ==
    UNION {{temp_file(n),
            TEMP_DIR \o <<"2", "/", ToString(n)>>,
            <<"v", "a", "r", "/", ToString(n)>>} : n \in 1..MaxNames}

\* Some process writes a file.
WriteFile(p) ==
    /\ p \notin disk
    /\ disk' = disk \cup {p}
    /\ cleanLog' = NoClean
    /\ UNCHANGED quotaVars
    /\ UNCHANGED <<fsm_state, fsm_data, nextId, tasks, jobLog, ev, updates,
                   failures, fetchLog>>

\* video_processor.cleanup_temp_file(p)
CleanupCall(p) ==
    LET r == cleanup_temp_file(disk, p)
    IN /\ disk' = r.files
       /\ cleanLog' = [path |-> p, existed |-> p \in disk,
                       deleted |-> r.deleted,
                       gone |-> p \in disk /\ p \notin r.files,
                       repeat |-> cleanLog.path = p /\ cleanLog.deleted]
       /\ UNCHANGED quotaVars
       /\ UNCHANGED <<fsm_state, fsm_data, nextId, tasks, jobLog, ev, updates,
                      failures, fetchLog>>

NextCleanup ==
    \/ \E p \in Paths : WriteFile(p)
    \/ \E p \in Paths : CleanupCall(p)

SpecCleanup == Init /\ [][NextCleanup]_vars

\* The path names a file inside the temp directory.
under_temp(p) == startswith(p, TEMP_DIR \o <<"/">>)

\* C17: a call of cleanup_temp_file deletes the file and returns true only
\* when the path lies inside the temp directory and the file exists; on any
\* other path, one in a directory whose name merely begins with the temp
\* directory's name included, it deletes nothing and returns false.
C17_DeletesOnlyUnderTemp ==
    cleanLog.path # NoPath
    => /\ cleanLog.deleted <=> (under_temp(cleanLog.path) /\ cleanLog.existed)
       /\ cleanLog.gone <=> cleanLog.deleted

\* C18: a second call of cleanup_temp_file on a path whose file the call
\* before it deleted deletes nothing and returns false.
C18_SecondCleanupNoOp ==
    cleanLog.repeat => ~cleanLog.deleted /\ ~cleanLog.gone

\* The second call happened, on a file of the temp directory.
C18_Witness ==
    cleanLog.repeat /\ under_temp(cleanLog.path) /\ ~cleanLog.existed

----------------------------------------------------------------------------
(* C19 *)

\* C19: after a conversion to GIF, a failure of either stage has made the
\* job fail, and the palette file does not exist, whatever the outcome.
C19_GifPaletteRemoved ==
    jobLog.gif
    => /\ jobLog.any_failed => jobLog.result # "file"
       /\ jobLog.palette \notin disk

----------------------------------------------------------------------------
(* C20 *)

\* C20: the handler of a video whose declared size is above the ceiling of
\* 50 MB never starts the download and never stores a file for it.
C20_OversizeDeniedBeforeDownload ==
    \A s \in Slots :
        (tasks[s].kind = "upload" /\ tasks[s].size > MAX_FILE_SIZE_MB)
        => /\ tasks[s].pc # "up_download"
           /\ tasks[s].src = NoPath

----------------------------------------------------------------------------
(* C21 *)

\* Links only, from a user and from an admin.
NextFetch ==
    \/ \E u \in Users : LinkMessage(u)
    \/ \E s \in Slots : UrlAckReturns(s)
    \/ \E s \in Slots : UrlDownloadReturns(s)
    \/ \E s \in Slots : TransportReturns(s)

SpecFetch == Init /\ [][NextFetch]_vars

\* C21: when the handler of a link has downloaded a file larger than the
\* ceiling, the file is denied and not kept for a user who is no admin, and
\* accepted and kept for an admin.
C21_CeilingBypassForAdmins ==
    (fetchLog.user # NoUser /\ fetchLog.size > MAX_FILE_SIZE_MB)
    => /\ fetchLog.user \notin ADMIN_USER_IDS
             => /\ fetchLog.result = "none"
                /\ \A s \in Slots :
                      (tasks[s].user = fetchLog.user
                          /\ tasks[s].pc = "up_fail_reply")
                      => tasks[s].src = NoPath
       /\ fetchLog.user \in ADMIN_USER_IDS
             => /\ fetchLog.result = "file"
                /\ fsm_data[fetchLog.user].video_path \in disk

----------------------------------------------------------------------------
(* C22 *)

\* The link without its scheme.
AfterScheme(url) ==
    removeprefix(removeprefix(url, <<"h", "t", "t", "p", "s", ":", "/", "/">>),
                 <<"h", "t", "t", "p", ":", "/", "/">>)

RECURSIVE UpToSlash(_)
\* The characters in front of the first "/".
UpToSlash(str) ==
    IF str = <<>> \/ Head(str) = "/" THEN <<>>
    ELSE <<Head(str)>> \o UpToSlash(Tail(str))

\* The host of the link is one of the list, with or without "www.".
HostAllowed(url) ==
    removeprefix(UpToSlash(AfterScheme(url)), <<"w", "w", "w", ".">>) \in Domains

\* C22: no step of the handler of a link whose host is not in the list of
\* video hosts changes the phase or the data of the session, and the handler
\* goes from its dispatch to its refusal, never to the download.
C22_ForeignHostRefused ==
    [][\A s \in Slots :
          (/\ tasks'[s] # tasks[s]
           /\ Stepping(s).kind = "url"
           /\ ~HostAllowed(Chars(Stepping(s).arg)))
          => /\ fsm_state'[Stepping(s).user] = fsm_state[Stepping(s).user]
             /\ fsm_data'[Stepping(s).user] = fsm_data[Stepping(s).user]
             /\ tasks'[s].pc \in {"last_await", "free"}
             /\ Stepping(s).res \in {"none", "invalid_input"}
             /\ fetchLog' = NoFetch]_vars

\* A link to a foreign host has been refused in a session that holds a
\* source.
C22_Witness ==
    \E s \in Slots :
        /\ tasks[s].kind = "url" /\ ~HostAllowed(Chars(tasks[s].arg))
        /\ tasks[s].res = "invalid_input"
        /\ fsm_state[tasks[s].user] = "waiting_for_operation"

----------------------------------------------------------------------------
(* C23 *)

\* One user's way to a compress or a trim job: a video, an operation, then
\* a quality button, or a start text and a preset of the end keyboard or
\* another text that begins with "+".
NextOptions ==
    \/ \E u \in SessionUsers : SmallVideoMessage(u)
    \/ \E u \in SessionUsers : OperationCallback(u)
    \/ \E u \in SessionUsers : TierCallback(u)
    \/ \E u \in SessionUsers : TrimStartMessage(u)
    \/ \E u \in SessionUsers : PresetMessage(u)
    \/ \E u \in SessionUsers : PlusTextMessage(u)
    \/ \E s \in Slots : TransportReturns(s)
    \/ \E s \in Slots : DownloadReturns(s)
    \/ \E s \in Slots : JobStarts(s)
    \/ \E s \in Slots : ToolReturns(s)

SpecOptions == Init /\ [][NextOptions]_vars

\* The seconds a preset adds to the start.
PresetOffset(name) ==
    CASE name \in {"preset_10_sec"} -> 10
      [] name \in {"preset_30_sec", "en_preset_30_sec"} -> 30
      [] name = "preset_1_min" -> 60
      [] name = "preset_2_min" -> 120
      [] name = "preset_5_min" -> 300
      [] name = "preset_10_min" -> 600
      [] name = "+7" -> 7

\* C23: with a start s stored, a preset or "+N" received in
\* waiting_for_trim_end stores the end s + offset, and the job of that
\* message runs with seek s and that end.
C23_PresetEndIsStartPlusOffset ==
    [][\A s \in Slots :
          /\ (tasks[s].pc = "free" /\ tasks'[s].kind = "trim_end"
                 /\ tasks'[s].arg \in PresetNames)
               => /\ tasks'[s].pc = "te_ack"
                  /\ fsm_data'[tasks'[s].user].trim_end
                        = StartOf(fsm_data[tasks'[s].user])
                          + PresetOffset(tasks'[s].arg)
          /\ (tasks[s].pc = "pv_tool" /\ tasks[s].kind = "trim_end"
                 /\ tasks[s].arg \in PresetNames /\ tasks'[s] # tasks[s])
               => /\ jobLog'.options.ss = StartOf(tasks[s].d)
                  /\ jobLog'.options.to
                        = StartOf(tasks[s].d) + PresetOffset(tasks[s].arg)]_vars

----------------------------------------------------------------------------
(* C24 *)

\* The step is a call of check_rate_limit by u.
Checks(u) ==
    /\ lastCheck'.user = u
    /\ <<user_requests, admitted, adminCalls, lastCheck>>'
          # <<user_requests, admitted, adminCalls, lastCheck>>

\* The fifth-last admitted request of u.
FifthLast(u) == admitted[u][Len(admitted[u]) - MAX_REQUESTS_PER_MINUTE + 1]

\* C24: for a user who is not an admin, a request made while the last five
\* admitted requests are all inside the 60-second window is denied with
\* remaining = 0, and a request made more than 60 seconds after the first
\* of them is admitted.
C24_SixthDeniedThenReadmitted ==
    [][\A u \in Users \ ADMIN_USER_IDS :
          (Checks(u) /\ Len(admitted[u]) >= MAX_REQUESTS_PER_MINUTE)
          => /\ FifthLast(u) > now - window_seconds
                  => ~lastCheck'.allowed /\ lastCheck'.remaining = 0
             /\ now > FifthLast(u) + window_seconds
                  => lastCheck'.allowed]_vars

\* A sixth request was admitted more than 60 seconds after the first, and
\* the request after it was denied with nothing remaining.
C24_Witness ==
    /\ Len(admitted[1]) = MAX_REQUESTS_PER_MINUTE + 1
    /\ admitted[1][MAX_REQUESTS_PER_MINUTE + 1] > admitted[1][1] + window_seconds
    /\ lastCheck = [user |-> 1, allowed |-> FALSE, remaining |-> 0]

----------------------------------------------------------------------------
(* C25 *)

\* One user on the way to the start of a cut: a video, the operation
\* buttons, and texts for the start.
NextTexts ==
    \/ \E u \in SessionUsers : SmallVideoMessage(u)
    \/ \E u \in SessionUsers : OperationCallback(u)
    \/ \E u \in SessionUsers : TimeTextMessage(u)
    \/ \E s \in Slots : TransportReturns(s)
    \/ \E s \in Slots : DownloadReturns(s)

SpecTexts == Init /\ [][NextTexts]_vars

\* The task of slot s is, or in this step becomes, the handler of a start
\* text out of texts.
StartText(s, texts) ==
    /\ tasks'[s] # tasks[s]
    /\ Stepping(s).kind = "trim_start"
    /\ Stepping(s).arg \in texts

\* C25: "90", "1:30" and "0:01:30" are parsed to 90 seconds, which the
\* handler of the start text stores; "abc" and ":" are turned down as
\* invalid input, and no step of their handler changes the phase or the data
\* of the session.
C25_ParseTime ==
    [][\A s \in Slots :
          /\ (StartText(s, {"90", "1:30", "0:01:30"}) /\ tasks[s].pc = "free")
                => /\ tasks'[s].pc = "ts_prompt"
                   /\ fsm_data'[tasks'[s].user].trim_start = 90
          /\ StartText(s, {"abc", ":"})
                => /\ Stepping(s).res \in {"none", "invalid_input"}
                   /\ tasks[s].pc = "free" => tasks'[s].res = "invalid_input"
                   /\ fsm_state'[Stepping(s).user] = fsm_state[Stepping(s).user]
                   /\ fsm_data'[Stepping(s).user] = fsm_data[Stepping(s).user]]_vars

\* The start 90 is stored from the form with hours, and a text that is not
\* a time is being turned down.
C25_Witness ==
    \E s, r \in Slots :
        /\ tasks[s].kind = "trim_start" /\ tasks[s].arg = "0:01:30"
        /\ tasks[s].pc = "ts_prompt"
        /\ fsm_data[tasks[s].user].trim_start = 90
        /\ tasks[r].kind = "trim_start" /\ tasks[r].arg = ":"
        /\ tasks[r].res = "invalid_input"

----------------------------------------------------------------------------
(* C26 *)

\* C26: a text received in waiting_for_trim_start stores a start or leads
\* to waiting_for_trim_end only if it parses to a number that is not
\* negative; the handler of any other text leaves the phase and the data of
\* the session as they were.
C26_OnlyNonNegativeStartAdvances ==
    [][\A s \in Slots :
          StartText(s, DOMAIN TimeTexts \ {"90", "1:30", "0:01:30"})
          => /\ fsm_state'[Stepping(s).user] = fsm_state[Stepping(s).user]
             /\ fsm_data'[Stepping(s).user] = fsm_data[Stepping(s).user]]_vars

----------------------------------------------------------------------------
(* C27 *)

\* C27: the last call of check_rate_limit by a user who is not an admin
\* returned, when it allowed the request, the ceiling minus the timestamps
\* in the window with the one just recorded among them, and, when it denied
\* the request, 0.
C27_RemainingCountsThisRequest ==
    (lastCheck.user \in Users \ ADMIN_USER_IDS)
    => /\ lastCheck.allowed
            => lastCheck.remaining
                 = MAX_REQUESTS_PER_MINUTE - Len(user_requests[lastCheck.user])
       /\ ~lastCheck.allowed => lastCheck.remaining = 0

----------------------------------------------------------------------------
(* C28 *)

\* C28: when process_video finds no source path or no operation in the
\* session, the step that follows its "Insufficient data" answer runs no
\* processor call and leaves the session cleared: state None, no data.
C28_InsufficientDataClears ==
    [][\A s \in Slots :
          (tasks[s].pc = "pv_insufficient" /\ tasks'[s] # tasks[s])
          => /\ jobLog' = NoJob
             /\ fsm_state'[tasks[s].user] = "None"
             /\ fsm_data'[tasks[s].user] = EmptyData]_vars

----------------------------------------------------------------------------
(* C29 *)

\* The step changes the limiter's list or the session of u.
Touched(u) ==
    \/ user_requests'[u] # user_requests[u]
    \/ fsm_state'[u] # fsm_state[u]
    \/ fsm_data'[u] # fsm_data[u]

\* C29: a step of a handler of one user leaves the limiter's list, the FSM
\* state and the FSM data (parameters and source path) of every other user
\* as they were, and no step changes them for two users.
C29_OtherUsersUntouched ==
    [][/\ \A s \in Slots :
             tasks'[s] # tasks[s]
             => \A b \in Users \ {Stepping(s).user} : ~Touched(b)
       /\ \A a, b \in Users : (Touched(a) /\ Touched(b)) => a = b]_vars

\* Both users hold a session with a source of their own, in different
\* phases, and the limiter has recorded requests of the user it counts.
C29_Witness ==
    /\ fsm_state[1] = "waiting_for_quality"
    /\ fsm_state[2] = "waiting_for_operation"
    /\ fsm_data[1].video_path \in disk /\ fsm_data[2].video_path \in disk
    /\ fsm_data[1].video_path # fsm_data[2].video_path
    /\ user_requests[1] # <<>>

----------------------------------------------------------------------------
(* C30 *)

\* The options the job of task t must run with, by the button pressed.
TierOptions(t) ==
    [codec_v |-> "libx264",
     crf |-> CASE t.arg = "low" -> "28" [] t.arg = "medium" -> "23"
               [] t.arg = "high" -> "20",
     preset |-> IF t.arg = "low" THEN "faster" ELSE "medium",
     ss |-> NoTime, to |-> NoTime]

\* C30: the job that a quality button starts in a session whose operation
\* is compress runs with libx264 and the CRF and preset of the button's
\* tier: 28 and faster for low, 23 and medium for medium, 20 and medium for
\* high.
C30_CompressOptionsByTier ==
    [][\A s \in Slots :
          (/\ tasks[s].pc = "pv_tool" /\ tasks'[s] # tasks[s]
           /\ tasks[s].kind = "quality"
           /\ tasks[s].d.operation = "compress")
          => jobLog'.options = TierOptions(tasks[s])]_vars

\* A compress job of the medium or of the low tier has just run and produced
\* its file.
C30_Witness ==
    /\ jobLog.result = "file"
    /\ jobLog.options.crf \in {"23", "28"}
    /\ \E s \in Slots :
          /\ tasks[s].kind = "quality" /\ tasks[s].arg \in {"medium", "low"}
          /\ tasks[s].d.operation = "compress"
          /\ JobLive(tasks[s])

----------------------------------------------------------------------------
(* C31 *)

\* C31: after a call of check_rate_limit by a user who is not an admin, made
\* at the clock reading now, the user's list holds only timestamps newer
\* than now - 60, each of them the timestamp of an admitted request, and no
\* more of them than the ceiling.
C31_RecordPrunedAndBounded ==
    [][\A u \in Users \ ADMIN_USER_IDS :
          Checks(u)
          => /\ \A i \in 1..Len(user_requests'[u]) :
                   /\ user_requests'[u][i] > now - window_seconds
                   /\ \E j \in 1..Len(admitted'[u]) :
                         admitted'[u][j] = user_requests'[u][i]
             /\ Len(user_requests'[u]) <= MAX_REQUESTS_PER_MINUTE]_vars

\* A call has pruned timestamps of admitted requests and left the list at
\* the ceiling.
C31_Witness ==
    /\ lastCheck.user = 1
    /\ Len(user_requests[1]) = MAX_REQUESTS_PER_MINUTE
    /\ Len(admitted[1]) > Len(user_requests[1])
    /\ \A i \in 1..Len(user_requests[1]) :
          user_requests[1][i] > now - window_seconds

----------------------------------------------------------------------------
(* C32 *)

\* One user on the way to a compress job.
NextLive ==
    \/ \E u \in SessionUsers : SmallVideoMessage(u)
    \/ \E u \in SessionUsers : OperationCallback(u)
    \/ \E u \in SessionUsers : QualityCallback(u)
    \/ \E s \in Slots : TransportReturns(s)
    \/ \E s \in Slots : DownloadReturns(s)
    \/ \E s \in Slots : JobStarts(s)
    \/ \E s \in Slots : ToolReturns(s)

\* Every external call returns or raises, and the event loop resumes every
\* handler whose call has ended; the user is not bound to send anything.
SpecLive ==
    /\ Init /\ [][NextLive]_vars
    /\ \A s \in Slots : /\ WF_vars(TransportReturns(s))
                         /\ WF_vars(DownloadReturns(s))
                         /\ WF_vars(JobStarts(s))
                         /\ WF_vars(ToolReturns(s))

\* C32: a session that process_video has put in processing for a job on a
\* stored source, with no other handler in progress, is eventually back in
\* state None.
C32_ExecutingReturnsToIdle ==
    \A u \in SessionUsers :
        (/\ fsm_state[u] = "processing"
         /\ \E s \in Slots : /\ tasks[s].user = u
                              /\ tasks[s].pc \in {"pv_edit_processing", "pv_tool"}
                              /\ tasks[s].src \in disk
                              /\ \A r \in Slots \ {s} : tasks[r].pc = "free")
        ~> (fsm_state[u] = "None")

----------------------------------------------------------------------------
(* C33 *)

\* Two users send videos; one of them has a video compressed.
NextNames ==
    \/ \E u \in Users : SmallVideoMessage(u)
    \/ \E u \in SessionUsers : OperationCallback(u)
    \/ \E u \in SessionUsers : QualityCallback(u)
    \/ \E s \in Slots : TransportReturns(s)
    \/ \E s \in Slots : DownloadReturnsNamed(s)
    \/ \E s \in Slots : JobStarts(s)
    \/ \E s \in Slots : ToolReturns(s)

SpecNames == Init /\ [][NextNames]_vars

\* C33: the sources that the sessions of two users hold, and the sources
\* and outputs that two handlers in progress hold, are files of different
\* paths.
C33_GeneratedPathsDistinct ==
    /\ \A a, b \in Users :
          (a # b /\ fsm_data[a].video_path # NoPath)
          => fsm_data[a].video_path # fsm_data[b].video_path
    /\ \A s, r \in Slots :
          (s # r /\ tasks[s].user # tasks[r].user /\ tasks[s].src # NoPath)
          => tasks[s].src \notin {tasks[r].src, tasks[r].out}
    /\ \A s, r \in Slots :
          tasks[s].out # NoPath => tasks[s].out # tasks[r].src

----------------------------------------------------------------------------
(* C34 *)

\* C34: a session whose state is not None holds the path of a source.
C34_SessionHoldsSource ==
    \A u \in SessionUsers :
        fsm_state[u] # "None" => fsm_data[u].video_path # NoPath

----------------------------------------------------------------------------
(* C35 *)

\* C35: a call of check_rate_limit that denies the request leaves in the
\* user's list the timestamps of the window, in their order, and nothing
\* else: no timestamp is added.
C35_DeniedCallRecordsNothing ==
    [][\A u \in Users \ ADMIN_USER_IDS :
          (Checks(u) /\ ~lastCheck'.allowed)
          => /\ user_requests'[u]
                  = SelectSeq(user_requests[u],
                              LAMBDA t : t > now - window_seconds)
             /\ admitted' = admitted]_vars

\* A request has been denied, and the list holds the five admitted
\* timestamps and no other.
C35_Witness ==
    /\ lastCheck = [user |-> 1, allowed |-> FALSE, remaining |-> 0]
    /\ user_requests[1] = admitted[1]
    /\ Len(user_requests[1]) = MAX_REQUESTS_PER_MINUTE

----------------------------------------------------------------------------
(* C36 *)

\* C36: no step of the handler of a link whose host is not in the list of
\* video hosts calls the limiter: the lists of timestamps and the history of
\* admitted requests stay as they were.
C36_RefusedLinkKeepsQuota ==
    [][\A s \in Slots :
          (/\ tasks'[s] # tasks[s]
           /\ Stepping(s).kind = "url"
           /\ ~HostAllowed(Chars(Stepping(s).arg)))
          => /\ user_requests' = user_requests
             /\ admitted' = admitted
             /\ lastCheck' = lastCheck]_vars

\* A link to a foreign host is being refused for a user whose list holds
\* timestamps and has room for more.
C36_Witness ==
    \E s \in Slots :
        /\ tasks[s].kind = "url" /\ ~HostAllowed(Chars(tasks[s].arg))
        /\ tasks[s].res = "invalid_input"
        /\ tasks[s].user \notin ADMIN_USER_IDS
        /\ Len(user_requests[tasks[s].user]) \in 1..(MAX_REQUESTS_PER_MINUTE - 1)

----------------------------------------------------------------------------
(* C37 *)

\* C37: the limiter records a request of a user only in the step that
\* dispatches a video or a link of that user.
C37_OnlySourceEventsUseQuota ==
    [][\A u \in Users :
          admitted'[u] # admitted[u]
          => \E s \in Slots : /\ tasks[s].pc = "free"
                              /\ tasks'[s].user = u
                              /\ tasks'[s].kind \in {"upload", "url"}]_vars

----------------------------------------------------------------------------
(* C38 *)

\* The handler that collects the last parameter of an operation, and the
\* parameters of the operation being set in data.
Collected(kind, data) ==
    CASE data.operation = "convert" ->
            kind = "format" /\ data.target_format # "none"
      [] data.operation = "compress" ->
            kind = "quality" /\ data.quality # "none"
      [] data.operation = "extract_audio" ->
            /\ kind = "bitrate"
            /\ data.audio_format # "none" /\ data.bitrate # "none"
      [] data.operation = "trim" ->
            kind = "trim_end" /\ data.trim_start # NoTime
      [] OTHER -> FALSE

\* C38: when the processor is called, the operation of the job is one of
\* the four operations, the job was started by the handler that collects
\* the last parameter of that operation, and the parameters of that
\* operation are the ones stored in the session, none left to a default.
C38_JobUsesCollectedParameters ==
    [][\A s \in Slots :
          (tasks[s].pc = "pv_tool" /\ tasks'[s] # tasks[s]
             /\ jobLog'.calls > 0)
          => /\ tasks[s].d.operation \in Operations
             /\ Collected(tasks[s].kind, tasks[s].d)]_vars

----------------------------------------------------------------------------
(* C39 *)

====
